---------------------------- MODULE Spec2Model ----------------------------
(***************************************************************************)
(* A model of the aqiGDL package: the persistence operations of data.py    *)
(* (df_to_db, save_graph, create_schema), the date range                   *)
(* generator, the per-row time normalisation and the per-sheet merge of    *)
(* database_clean, restructure_database, week_average, and the index and   *)
(* symbology functions of visualization.py.                                *)
(*                                                                         *)
(* Every subsystem has its own variable and its own specification; the     *)
(* variables of the other subsystems stay at Idle under it.                *)
(***************************************************************************)
EXTENDS Integers, Sequences, FiniteSets, TLC

VARIABLES
    db,       \* the database: a function from <<schema, table>> to the rows
    schemas,  \* the schemas that exist in the database
    last,     \* the persistence call that ran last, with the database before it
    dr,       \* a daterange call
    cl,       \* a database_clean run over one workbook
    rs,       \* a restructure_database call
    wk,       \* a week_average call
    sy        \* a symbology_gdf / imeca_colours call

vars == <<db, schemas, last, dr, cl, rs, wk, sy>>

Idle == [pc |-> "idle"]

(***************************************************************************)
(* PERSISTENCE: create_schema, df_to_db, save_graph                        *)
(***************************************************************************)

\* The largest table the model lets an append build.
MaxRows == 3

\* str.lower() on the identifiers the model passes in.
lower(s) ==
    CASE s = "GDL" -> "gdl"
      [] s = "OBS" -> "obs"
      [] s = "GDL_Edges" -> "gdl_edges"
      [] s = "Networks" -> "networks"
      [] OTHER -> s

\* Arguments the callers pass.
SchemaArgs == {"Networks"}
NameArgs == {"OBS", "GDL_Edges", "gdl_nodes"}
CityArgs == {"gdl", "GDL"}
IfExistsArgs == {"fail", "replace", "append"}
\* Frames: each row is a number standing for one record.
FrameArgs == {<<>>, <<1>>, <<2, 3>>}
\* Graphs, as ox.graph_to_gdfs splits them into a node and an edge frame.
GraphArgs == {[nodes |-> <<1>>, edges |-> <<2>>], [nodes |-> <<1, 2>>, edges |-> <<3>>]}

\* DataFrame.to_sql(name, con, if_exists, schema): raises when the schema is
\* missing; on an existing table 'fail' raises, 'replace' drops and recreates,
\* 'append' inserts; a missing table is created.
to_sql(d, sch, key, rows, if_exists) ==
    IF key[1] \notin sch
    THEN [ok |-> FALSE, db |-> d]
    ELSE IF key \in DOMAIN d
         THEN CASE if_exists = "fail" -> [ok |-> FALSE, db |-> d]
                [] if_exists = "replace" -> [ok |-> TRUE, db |-> [d EXCEPT ![key] = rows]]
                [] if_exists = "append" -> [ok |-> TRUE, db |-> [d EXCEPT ![key] = d[key] \o rows]]
         ELSE [ok |-> TRUE, db |-> [k \in DOMAIN d \cup {key} |-> IF k = key THEN rows ELSE d[k]]]

\* GeoDataFrame.to_postgis(name, con, if_exists, schema): the same collision rules.
to_postgis(d, sch, key, rows, if_exists) == to_sql(d, sch, key, rows, if_exists)

\* create_schema: CREATE SCHEMA IF NOT EXISTS {schema.lower()}
create_schema(sch, schema) == sch \cup {lower(schema)}

\* The table df_to_db writes: both names lowercased.
df_to_db_key_raw(name, schema) == <<lower(schema), name>>
df_to_db_key(name, schema) == <<lower(schema), lower(name)>>

\* if_exists of the two writes of save_graph.
save_graph_if_exists_replace == "replace"
save_graph_if_exists == "fail"

\* The node and edge tables of a city.
nodes_key(city) == <<"networks", lower(city) \o "_nodes">>
edges_key(city) == <<"networks", lower(city) \o "_edges">>

\* No write may build a table of more than MaxRows rows.
WithinRows(d) == \A k \in DOMAIN d : Len(d[k]) <= MaxRows

CreateSchema(schema) ==
    /\ schemas' = create_schema(schemas, schema)
    /\ last' = [op |-> "create_schema", schema |-> schema]
    /\ UNCHANGED <<db, dr, cl, rs, wk, sy>>

DfToDb(df, name, schema, if_exists) ==
    LET sch == create_schema(schemas, schema)
        key == df_to_db_key(name, schema)
        r == to_sql(db, sch, key, df, if_exists)
    IN /\ WithinRows(r.db)
       /\ schemas' = sch
       /\ db' = r.db
       /\ last' = [op |-> "df_to_db", name |-> name, schema |-> schema,
                   if_exists |-> if_exists, rows |-> df, raised |-> ~r.ok,
                   pre |-> db]
       /\ UNCHANGED <<dr, cl, rs, wk, sy>>

\* A database error other than a collision that a write of save_graph may
\* meet (connection lost, statement rejected): none, or at the edge write.
FaultArgs == {"none", "edges"}

\* save_graph: the node write, then (when it did not raise) the edge write.
\* Nothing is rolled back when the second write raises.
SaveGraph(G, city, fault) ==
    LET r1 == to_postgis(db, schemas, nodes_key(city), G.nodes, save_graph_if_exists)
        w2 == to_postgis(r1.db, schemas, edges_key(city), G.edges, save_graph_if_exists)
        r2 == IF fault = "edges" THEN [ok |-> FALSE, db |-> r1.db] ELSE w2
    IN /\ db' = IF r1.ok THEN r2.db ELSE r1.db
       /\ last' = [op |-> "save_graph", city |-> city, fault |-> fault,
                   raised |-> ~(r1.ok /\ r2.ok),
                   attempted |-> {nodes_key(city)}
                                 \cup (IF r1.ok THEN {edges_key(city)} ELSE {}),
                   wrote |-> (IF r1.ok THEN {nodes_key(city)} ELSE {})
                             \cup (IF r1.ok /\ r2.ok THEN {edges_key(city)} ELSE {}),
                   after_partial |-> /\ last.op = "save_graph"
                                     /\ lower(last.city) = lower(city)
                                     /\ last.raised
                                     /\ last.wrote = {nodes_key(city)}
                                     /\ edges_key(city) \notin DOMAIN db,
                   pre |-> db]
       /\ UNCHANGED <<schemas, dr, cl, rs, wk, sy>>

InitDb ==
    /\ db = <<>>
    /\ schemas = {}
    /\ last = [op |-> "none"]
    /\ dr = Idle /\ cl = Idle /\ rs = Idle /\ wk = Idle /\ sy = Idle

NextDb ==
    \/ \E s \in SchemaArgs : CreateSchema(s)
    \/ \E df \in FrameArgs, n \in NameArgs, s \in SchemaArgs, m \in IfExistsArgs :
          DfToDb(df, n, s, m)
    \/ \E G \in GraphArgs, c \in CityArgs, f \in FaultArgs : SaveGraph(G, c, f)

SpecDb == InitDb /\ [][NextDb]_vars

\* C1: df_to_db on any reachable database: on an existing (lowercased)
\* schema.name table 'fail' raises and leaves the rows as they were, 'replace'
\* succeeds and leaves exactly the input rows, 'append' succeeds and leaves the
\* old rows followed by the input rows (row count = old + input); on a missing
\* table every mode creates it with exactly the input rows.
C1_DfToDbCollision ==
    last.op = "df_to_db" =>
        LET key == <<lower(last.schema), lower(last.name)>>
        IN IF key \in DOMAIN last.pre
           THEN CASE last.if_exists = "fail" ->
                       last.raised /\ key \in DOMAIN db /\ db[key] = last.pre[key]
                  [] last.if_exists = "replace" ->
                       ~last.raised /\ key \in DOMAIN db /\ db[key] = last.rows
                       /\ Len(db[key]) = Len(last.rows)
                  [] last.if_exists = "append" ->
                       ~last.raised /\ key \in DOMAIN db
                       /\ db[key] = last.pre[key] \o last.rows
                       /\ Len(db[key]) = Len(last.pre[key]) + Len(last.rows)
           ELSE ~last.raised /\ key \in DOMAIN db /\ db[key] = last.rows

\* An append of a non-empty frame given under an upper-case name to a table
\* that already held rows.
C1_Witness ==
    /\ last.op = "df_to_db"
    /\ last.name = "OBS"
    /\ last.if_exists = "append"
    /\ <<"networks", "obs">> \in DOMAIN last.pre
    /\ Len(last.pre[<<"networks", "obs">>]) > 0
    /\ Len(last.rows) > 0
    /\ Len(db[<<"networks", "obs">>]) = 3

\* C2: a save_graph call alters no table that existed before it: every table
\* it writes did not exist, every table that existed keeps its rows, and the
\* call raises when the city's node or edge table already existed.
C2_SaveGraphNoOverwrite ==
    last.op = "save_graph" =>
        /\ \A k \in DOMAIN last.pre : k \in DOMAIN db /\ db[k] = last.pre[k]
        /\ \A k \in last.wrote : k \notin DOMAIN last.pre /\ k \in DOMAIN db
        /\ \A k \in DOMAIN db \ DOMAIN last.pre : k \in last.wrote
        /\ (\/ <<"networks", lower(last.city) \o "_nodes">> \in DOMAIN last.pre
            \/ <<"networks", lower(last.city) \o "_edges">> \in DOMAIN last.pre)
              => last.raised

\* save_graph("GDL") met an existing edge table after writing the node table.
C2_Witness ==
    /\ last.op = "save_graph"
    /\ last.city = "GDL"
    /\ last.raised
    /\ <<"networks", "gdl_edges">> \in DOMAIN last.pre
    /\ last.wrote = {<<"networks", "gdl_nodes">>}

\* C12: once the node table of a city exists and its edge table does not, a
\* save_graph call for that city raises at the node write, attempts no edge
\* write and leaves the database as it was, the edge table still missing.
C12_PartialStatePermanent ==
    (/\ last.op = "save_graph"
     /\ nodes_key(last.city) \in DOMAIN last.pre
     /\ edges_key(last.city) \notin DOMAIN last.pre)
        => /\ last.raised
           /\ last.attempted = {nodes_key(last.city)}
           /\ last.wrote = {}
           /\ db = last.pre
           /\ edges_key(last.city) \notin DOMAIN db

\* A save_graph call wrote the node table and failed at the edge write; the
\* next call for the city, meeting no database error, found the node table
\* present and the edge table absent.
C12_Witness ==
    /\ last.op = "save_graph"
    /\ last.after_partial
    /\ last.fault = "none"
    /\ lower(last.city) = "gdl"
    /\ <<"networks", "gdl_nodes">> \in DOMAIN db
    /\ <<"networks", "gdl_edges">> \notin DOMAIN db

(***************************************************************************)
(* DATE RANGE GENERATOR: daterange                                         *)
(***************************************************************************)

\* Timestamps are whole hours counted from datetime.min (0); MaxT stands for
\* datetime.max: a sum outside 0..MaxT raises OverflowError.
MaxT == 104

\* The hour the example runs start at, some days after datetime.min.
T0 == 50

StartArgs == {T0, T0 + 1, T0 + 2}
EndArgs == {T0 - 1, T0 + 1, T0 + 3, T0 + 4, MaxT}
IntervalArgs == {"hour", "day"}
LapseArgs == {-1, 0, 1, 2}

\* The longest list the model lets the loop build.
MaxList == MaxT + 3

\* timedelta(hours=lapse) / timedelta(days=lapse), in hours.
timedelta_zero(interval, lapse) == 0
timedelta(interval, lapse) == IF interval = "hour" THEN lapse ELSE 24 * lapse

\* The loop condition of daterange.
daterange_cond_strict(cur, end) == cur < end
daterange_cond(cur, end) == cur <= end

DrCall(start, end, interval, lapse) ==
    /\ dr.pc = "idle"
    /\ dr' = [pc |-> "loop", start |-> start, end |-> end, interval |-> interval,
              lapse |-> lapse, delta |-> timedelta(interval, lapse),
              start_date |-> start, date_list |-> <<>>, calls |-> 1, first |-> <<>>]
    /\ UNCHANGED <<db, schemas, last, cl, rs, wk, sy>>

\* One test of the while condition, and one pass of the body when it holds.
DrStep ==
    /\ dr.pc = "loop"
    /\ IF daterange_cond(dr.start_date, dr.end)
       THEN /\ Len(dr.date_list) < MaxList
            /\ LET next == dr.start_date + dr.delta
               IN dr' = [dr EXCEPT !.date_list = Append(@, dr.start_date),
                                   !.start_date = IF next \in 0..MaxT THEN next ELSE @,
                                   !.pc = IF next \in 0..MaxT THEN "loop" ELSE "raised"]
       ELSE dr' = [dr EXCEPT !.pc = "done"]
    /\ UNCHANGED <<db, schemas, last, cl, rs, wk, sy>>

\* The caller asks for the same range again.
DrAgain ==
    /\ dr.pc = "done"
    /\ dr.calls = 1
    /\ dr' = [dr EXCEPT !.pc = "loop", !.start_date = dr.start, !.date_list = <<>>,
                        !.calls = 2, !.first = dr.date_list]
    /\ UNCHANGED <<db, schemas, last, cl, rs, wk, sy>>

InitDr ==
    /\ dr = Idle
    /\ db = <<>> /\ schemas = {} /\ last = [op |-> "none"]
    /\ cl = Idle /\ rs = Idle /\ wk = Idle /\ sy = Idle

NextDr ==
    \/ \E s \in StartArgs, e \in EndArgs, i \in IntervalArgs, l \in LapseArgs :
          DrCall(s, e, i, l)
    \/ DrStep
    \/ DrAgain

SpecDr == InitDr /\ [][NextDr]_vars

StrictlyIncreasing(s) == \A i, j \in DOMAIN s : i < j => s[i] < s[j]

\* The progression start, start+d, ... of the timestamps <= end, for d >= 1.
NumSteps(start, end, d) == IF start > end THEN 0 ELSE (end - start) \div d + 1
Progression(start, end, d) == [k \in 1..NumSteps(start, end, d) |-> start + (k - 1) * d]

\* C10 as stated: for every integer lapse the call never raises, the list it
\* builds is strictly increasing, and what it returns is the progression of
\* the timestamps <= end (empty when start > end).
C10_Original ==
    dr.pc # "idle" =>
        /\ dr.pc # "raised"
        /\ StrictlyIncreasing(dr.date_list)
        /\ dr.pc = "done" =>
              IF dr.start > dr.end THEN dr.date_list = <<>>
              ELSE dr.delta >= 1 /\ dr.date_list = Progression(dr.start, dr.end, dr.delta)

\* The first timestamp of the progression beyond end is a datetime.
DrFits == dr.start > dr.end
          \/ dr.start + NumSteps(dr.start, dr.end, dr.delta) * dr.delta <= MaxT

\* C10 amended: for a lapse >= 1 whose progression stays within the datetime
\* range up to its first timestamp beyond end, the call does not raise, never
\* builds more than the progression's timestamps <= end (so the loop ends),
\* builds a strictly increasing list, returns exactly that progression, and
\* returns it again when called again.
C10_DaterangePositiveLapse ==
    (dr.pc # "idle" /\ dr.lapse >= 1 /\ DrFits) =>
        /\ dr.pc \in {"loop", "done"}
        /\ Len(dr.date_list) <= NumSteps(dr.start, dr.end, dr.delta)
        /\ Len(dr.date_list) < MaxList
        /\ StrictlyIncreasing(dr.date_list)
        /\ dr.pc = "done" =>
              /\ dr.date_list = Progression(dr.start, dr.end, dr.delta)
              /\ dr.calls = 2 => dr.date_list = dr.first

\* Hourly from T0 to T0+3 with lapse 2: [T0, T0+2], returned twice.
C10_Witness ==
    /\ dr.pc = "done" /\ dr.calls = 2
    /\ dr.start = T0 /\ dr.end = T0 + 3 /\ dr.interval = "hour" /\ dr.lapse = 2
    /\ dr.date_list = <<T0, T0 + 2>>


(***************************************************************************)
(* INDEX AND SYMBOLOGY: p_limits, imeca_colours, symbology_gdf             *)
(***************************************************************************)

\* Numbers are exact fractions num/den (den > 0), or NaN.  Floating-point
\* rounding is not modelled.
Rat(n, d) == [nan |-> FALSE, num |-> n, den |-> d]
NaN == [nan |-> TRUE, num |-> 0, den |-> 1]

\* Comparisons as Python evaluates them: every comparison with NaN is false.
RatLe(a, b) == ~a.nan /\ ~b.nan /\ a.num * b.den <= b.num * a.den
RatLt(a, b) == ~a.nan /\ ~b.nan /\ a.num * b.den < b.num * a.den
RatEq(a, b) == ~a.nan /\ ~b.nan /\ a.num * b.den = b.num * a.den

\* Concentrations are given in steps of 1/ConcDen, from 0 to MaxConc.
ConcDen == 2
MaxConc == 520
Conc(h) == Rat(h, ConcDen)
ConcArgs == {Conc(h) : h \in 0..(MaxConc * ConcDen)} \cup {NaN}

Supported == {"CO", "SO2", "NO2", "O3", "PM10"}
ParamArgs == Supported \cup {"PM25", "UNKNOWN"}

\* limit_dict of p_limits; a missing key raises KeyError.
limit_keys == {"PM10", "O3", "CO", "PM25", "SO2", "NO2"}
p_limits(param) ==
    CASE param = "PM10" -> Rat(214, 1)
      [] param = "O3" -> Rat(154, 1000)
      [] param = "CO" -> Rat(165, 10)
      [] param = "PM25" -> Rat(974, 10)
      [] param = "SO2" -> Rat(195, 1000)
      [] param = "NO2" -> Rat(315, 1000)

\* a * (c - b) + k for the decimal literal a = an/s, where c = hn/d and
\* b = bn/d:  (an * (hn - bn) + k*s*d) / (s*d)
Piece(an, s, hn, bn, d, k) == Rat(an * (hn - bn) + k * s * d, s * d)

\* Up to line 96 of imeca_colours: the index of a concentration.
imeca_default_nan == NaN
imeca_default == Rat(0, 1)

imeca_O3(conc) ==
    \* conc = conc/1000 = h/d: thresholds and offsets below are in thousandths
    LET h == conc.num
        d == 1000 * ConcDen
        le(t) == ~conc.nan /\ h <= t * ConcDen
        gt(t) == ~conc.nan /\ h > t * ConcDen
    IN CASE le(70) -> Rat(71429 * h, 100 * d)
         [] gt(70) /\ le(95) -> Piece(204167, 100, h, 71 * ConcDen, d, 51)
         [] gt(95) /\ le(154) -> Piece(84483, 100, h, 96 * ConcDen, d, 101)
         [] gt(154) /\ le(204) -> Piece(1000, 1, h, 155 * ConcDen, d, 151)
         [] gt(204) /\ le(404) -> Piece(49749, 100, h, 205 * ConcDen, d, 201)
         [] gt(404) -> Rat(h - 104000 * ConcDen, ConcDen)
         [] OTHER -> imeca_default

imeca_PM10(conc) ==
    LET h == conc.num
        le(t) == ~conc.nan /\ h <= t * ConcDen
        gt(t) == ~conc.nan /\ h > t * ConcDen
    IN CASE le(40) -> Rat(125 * h, 100 * ConcDen)
         [] gt(40) /\ le(75) -> Piece(144, 100, h, 41 * ConcDen, ConcDen, 51)
         [] gt(75) /\ le(214) -> Piece(355, 1000, h, 76 * ConcDen, ConcDen, 101)
         [] gt(214) /\ le(354) -> Piece(353, 1000, h, 215 * ConcDen, ConcDen, 151)
         [] gt(354) /\ le(424) -> Piece(14359, 10000, h, 355 * ConcDen, ConcDen, 201)
         [] gt(424) /\ le(504) -> Piece(1253, 1000, h, 425 * ConcDen, ConcDen, 301)
         [] gt(504) -> Rat(h - 104 * ConcDen, ConcDen)
         [] OTHER -> imeca_default

imeca(param, conc) ==
    CASE param = "CO" -> IF conc.nan THEN NaN ELSE Rat(conc.num * 100, 11 * conc.den)
      [] param = "SO2" -> IF conc.nan THEN NaN ELSE Rat(conc.num * 100, 110 * conc.den)
      [] param = "NO2" -> IF conc.nan THEN NaN ELSE Rat(conc.num * 100, 210 * conc.den)
      [] param = "O3" -> imeca_O3(conc)
      [] param = "PM10" -> imeca_PM10(conc)
      [] OTHER -> imeca_default

\* Lines 98-116 of imeca_colours: the colour of an index.
colour_of_left_closed(v) ==
    IF RatLt(v, Rat(50, 1)) THEN "#75b46f"
    ELSE IF RatLe(Rat(50, 1), v) /\ RatLt(v, Rat(100, 1)) THEN "#f7ff55"
    ELSE IF RatLe(Rat(100, 1), v) /\ RatLt(v, Rat(150, 1)) THEN "#ff9e4f"
    ELSE IF RatLe(Rat(150, 1), v) /\ RatLt(v, Rat(200, 1)) THEN "#db3331"
    ELSE IF RatLe(Rat(200, 1), v) THEN "#c158b8"
    ELSE "#ffffff"
colour_of(v) ==
    IF RatLe(v, Rat(50, 1)) THEN "#75b46f"
    ELSE IF RatLt(Rat(50, 1), v) /\ RatLe(v, Rat(100, 1)) THEN "#f7ff55"
    ELSE IF RatLt(Rat(100, 1), v) /\ RatLe(v, Rat(150, 1)) THEN "#ff9e4f"
    ELSE IF RatLt(Rat(150, 1), v) /\ RatLe(v, Rat(200, 1)) THEN "#db3331"
    ELSE IF RatLt(Rat(200, 1), v) THEN "#c158b8"
    ELSE "#ffffff"

imeca_colours(param, conc) == colour_of(imeca(param, conc))

\* One call of imeca_colours on a scalar concentration.
ImecaCall(param, conc) ==
    /\ sy.pc = "idle"
    /\ sy' = [pc |-> "imeca", param |-> param, conc |-> conc,
              index |-> imeca(param, conc), colour |-> imeca_colours(param, conc),
              raised |-> FALSE]
    /\ UNCHANGED <<db, schemas, last, dr, cl, rs, wk>>


\* Line 137 of symbology_gdf: 5 * conc / p_limits(param).
size_of(param, conc) ==
    IF conc.nan THEN NaN
    ELSE Rat(5 * conc.num * p_limits(param).den, conc.den * p_limits(param).num)

\* The frames symbology_gdf is given: the index label, conc and one other
\* column of every row; Size and Colour are not set yet.
LabelArgs == {<<>>, <<0>>, <<3>>, <<0, 1>>, <<1, 0>>, <<1, 2>>, <<0, 0>>}
SyConcArgs == {Conc(0), Conc(11 * ConcDen), Conc(41 * ConcDen), NaN}
MkGdf(labels, concs) ==
    [k \in 1..Len(labels) |->
        [label |-> labels[k], conc |-> concs[k], other |-> 10 + k,
         Size |-> NaN, Colour |-> "nan"]]
GdfArgs == {MkGdf(l, c) : l \in LabelArgs, c \in [1..2 -> SyConcArgs]}

\* bool() of an empty array: False (with a DeprecationWarning) in the NumPy
\* releases of the package's time, ValueError in later ones.
EmptyTruthArgs == {"false", "raise"}

SymbologyCall(gdf, param, empty_truth) ==
    /\ sy.pc = "idle"
    /\ sy' = [pc |-> "symb", param |-> param, gdf0 |-> gdf, gdf |-> gdf, i |-> 0,
              empty_truth |-> empty_truth, raised |-> FALSE]
    /\ UNCHANGED <<db, schemas, last, dr, cl, rs, wk>>

\* One pass of the loop "for i in range(len(gdf))", or its end.
SymbologyStep ==
    /\ sy.pc = "symb"
    /\ LET g == sy.gdf
           sel == {k \in DOMAIN g : g[k].label = sy.i}   \* gdf.index == i
           \* imeca_colours branches on an array of Cardinality(sel) values
           \* for the pollutants it knows; bool() of it raises unless it is
           \* one value (or none, see EmptyTruthArgs)
           array_raises == /\ sy.param \in Supported
                           /\ \/ Cardinality(sel) > 1
                              \/ Cardinality(sel) = 0 /\ sy.empty_truth = "raise"
       IN IF sy.i >= Len(g)
          THEN sy' = [sy EXCEPT !.pc = "symb_done"]
          ELSE IF sy.param \notin limit_keys \/ array_raises
          THEN sy' = [sy EXCEPT !.pc = "symb_raised", !.raised = TRUE]
          ELSE sy' = [sy EXCEPT
                        !.i = @ + 1,
                        !.gdf = [k \in DOMAIN g |->
                                   IF k \in sel
                                   THEN [g[k] EXCEPT
                                           !.Colour = imeca_colours(sy.param, g[k].conc),
                                           !.Size = size_of(sy.param, g[k].conc)]
                                   ELSE g[k]]]
    /\ UNCHANGED <<db, schemas, last, dr, cl, rs, wk>>

InitSy ==
    /\ sy = Idle
    /\ db = <<>> /\ schemas = {} /\ last = [op |-> "none"]
    /\ dr = Idle /\ cl = Idle /\ rs = Idle /\ wk = Idle

NextSy ==
    \/ \E p \in ParamArgs, c \in ConcArgs : ImecaCall(p, c)
    \/ \E g \in GdfArgs, p \in ParamArgs, e \in EmptyTruthArgs : SymbologyCall(g, p, e)
    \/ SymbologyStep

SpecSy == InitSy /\ [][NextSy]_vars

\* C7 as stated: for a supported pollutant and any row index labels,
\* symbology_gdf does not raise and returns the same rows, each with
\* Size = 5 * conc / p_limits(pollutant) and Colour = imeca_colours(pollutant,
\* conc) of its own conc, every other column unchanged.
C7_Original ==
    (sy.pc \in {"symb", "symb_done", "symb_raised"} /\ sy.param \in Supported) =>
        /\ sy.pc # "symb_raised"
        /\ sy.pc = "symb_done" =>
              /\ Len(sy.gdf) = Len(sy.gdf0)
              /\ \A k \in DOMAIN sy.gdf :
                    /\ sy.gdf[k].Size = size_of(sy.param, sy.gdf[k].conc)
                    /\ sy.gdf[k].Colour = imeca_colours(sy.param, sy.gdf[k].conc)
                    /\ sy.gdf[k].label = sy.gdf0[k].label
                    /\ sy.gdf[k].conc = sy.gdf0[k].conc
                    /\ sy.gdf[k].other = sy.gdf0[k].other

\* The bands of C8, written from the claim.
C8_Band(v) ==
    CASE v.num <= 50 * v.den -> "#75b46f"
      [] 50 * v.den < v.num /\ v.num <= 100 * v.den -> "#f7ff55"
      [] 100 * v.den < v.num /\ v.num <= 150 * v.den -> "#ff9e4f"
      [] 150 * v.den < v.num /\ v.num <= 200 * v.den -> "#db3331"
      [] v.num > 200 * v.den -> "#c158b8"

\* C8: the colour of a computed (non-NaN) index v is that of its left-open,
\* right-closed band; CO at 11 gives index 100 and #f7ff55, PM10 at 40 gives
\* 50 and #75b46f, PM10 at 41 gives 51 and #f7ff55.
C8_ColourBands ==
    (sy.pc = "imeca" /\ ~sy.index.nan) =>
        /\ sy.colour = C8_Band(sy.index)
        /\ (sy.param = "CO" /\ sy.conc = Conc(11 * ConcDen)) =>
              RatEq(sy.index, Rat(100, 1)) /\ sy.colour = "#f7ff55"
        /\ (sy.param = "PM10" /\ sy.conc = Conc(40 * ConcDen)) =>
              RatEq(sy.index, Rat(50, 1)) /\ sy.colour = "#75b46f"
        /\ (sy.param = "PM10" /\ sy.conc = Conc(41 * ConcDen)) =>
              RatEq(sy.index, Rat(51, 1)) /\ sy.colour = "#f7ff55"

\* imeca_colours('CO', 11): the index is exactly 100, on the closed end of its band.
C8_Witness ==
    /\ sy.pc = "imeca" /\ sy.param = "CO" /\ sy.conc = Conc(11 * ConcDen)
    /\ RatEq(sy.index, Rat(100, 1)) /\ sy.colour = "#f7ff55"

\* C9 as stated: for a pollutant code outside {CO, SO2, NO2, O3, PM10} no
\* error is raised, the index stays 0, and the colour is #ffffff.
C9_Original ==
    (sy.pc = "imeca" /\ sy.param \notin Supported) =>
        /\ ~sy.raised
        /\ RatEq(sy.index, Rat(0, 1))
        /\ sy.colour = "#ffffff"

\* C9 amended: for a pollutant code outside {CO, SO2, NO2, O3, PM10} no error
\* is raised, the index stays 0, and the colour is that of the band v <= 50,
\* #75b46f; #ffffff is returned only for a NaN index.
C9_UnsupportedIsGood ==
    sy.pc = "imeca" =>
        /\ sy.param \notin Supported =>
              ~sy.raised /\ RatEq(sy.index, Rat(0, 1)) /\ sy.colour = "#75b46f"
        /\ sy.colour = "#ffffff" <=> sy.index.nan

\* imeca_colours('PM25', 300).
C9_Witness ==
    /\ sy.pc = "imeca" /\ sy.param = "PM25" /\ sy.conc = Conc(300 * ConcDen)
    /\ sy.colour = "#75b46f"


\* The severity order of the colours: #75b46f < #f7ff55 < #ff9e4f < #db3331
\* < #c158b8.
Severity(colour) ==
    CASE colour = "#75b46f" -> 1
      [] colour = "#f7ff55" -> 2
      [] colour = "#ff9e4f" -> 3
      [] colour = "#db3331" -> 4
      [] colour = "#c158b8" -> 5
      [] OTHER -> 0

\* C13 as stated: for a supported pollutant the band of a concentration is
\* never less severe than the band of any smaller non-negative concentration.
C13_Original ==
    (sy.pc = "imeca" /\ sy.param \in Supported /\ ~sy.conc.nan) =>
        \A c1 \in ConcArgs :
            RatLe(c1, sy.conc) =>
                Severity(imeca_colours(sy.param, c1)) <= Severity(sy.colour)

(***************************************************************************)
(* RESTRUCTURING: restructure_database                                     *)
(***************************************************************************)

\* The rows (date[, time], pollutant) of every wide CSV, and the longest
\* directory listing.
MaxKeys == 2
MaxFiles == 2

\* Files of the processed-data directory: a wide CSV of an interval with its
\* station columns, or some other file.
FileArgs ==
    { [name |-> "2018_hour.csv", csv |-> TRUE, ivl |-> "hour", cols |-> <<"AGU", "CEN">>],
      [name |-> "2019_hour.csv", csv |-> TRUE, ivl |-> "hour", cols |-> <<"CEN", "XXX">>],
      [name |-> "2018_day.csv", csv |-> TRUE, ivl |-> "day", cols |-> <<"CEN", "AGU">>],
      [name |-> "notes.txt", csv |-> FALSE, ivl |-> "none", cols |-> <<>>] }

\* os.listdir: the files in any order.
Injective(q) == \A a, b \in DOMAIN q : a # b => q[a] # q[b]
ListingArgs ==
    UNION {{q \in [1..n -> FileArgs] : Injective(q)} : n \in 0..MaxFiles}

\* estaciones.csv: one row per station code, in any order.
StationRows ==
    { [codigo |-> "AGU", long |-> 1, lat |-> 2],
      [codigo |-> "CEN", long |-> 3, lat |-> 4],
      [codigo |-> "OBL", long |-> 5, lat |-> 6] }
EstacionesArgs ==
    UNION {{q \in [1..n -> StationRows] : Injective(q)} : n \in 0..Cardinality(StationRows)}

\* An absent coordinate (NaN, or no column at all).
NoCoord == "nan"

\* 'interval in file'
interval_in(interval, file) == file.ivl = interval

\* set_index([...]).stack(dropna=False).reset_index(): one row per row of the
\* CSV and station column, in that order.
stack(file) ==
    LET nc == Len(file.cols)
    IN [r \in 1..(MaxKeys * nc) |->
          [file |-> file.name, key |-> (r - 1) \div nc + 1,
           EST_SIMAJ |-> file.cols[((r - 1) % nc) + 1],
           CONC |-> 10 * ((r - 1) \div nc + 1) + ((r - 1) % nc) + 1,
           LONG |-> NoCoord, LAT |-> NoCoord]]

\* stations_simaj[stations_simaj['codigo'] == est][col][i]: the rows of the
\* code, then the one whose index label is i (labels are 0, 1, ...; the model's
\* sequences start at 1).  KeyError when no row of the code has that label.
coord_unfiltered(stations, est, i, col) ==
    [ok |-> TRUE, val |-> stations[1][col]]
coord_lookup(stations, est, i, col) ==
    LET labels == {j \in 0..(Len(stations) - 1) : stations[j + 1].codigo = est}
    IN IF i \in labels THEN [ok |-> TRUE, val |-> stations[i + 1][col]]
       ELSE [ok |-> FALSE, val |-> NoCoord]

RsCall(listing, estaciones, interval) ==
    /\ rs.pc = "idle"
    /\ rs' = [pc |-> "files", interval |-> interval, listing |-> listing,
              estaciones |-> estaciones, f |-> 1, all |-> <<>>,
              stations_read |-> FALSE, i |-> 0]
    /\ UNCHANGED <<db, schemas, last, dr, cl, wk, sy>>

\* One pass of "for file in os.listdir(dir_gdl)", or the end of that loop.
RsFile ==
    /\ rs.pc = "files"
    /\ IF rs.f > Len(rs.listing)
       THEN \* line 323 reads stations_simaj: unbound when no CSV was listed
            rs' = [rs EXCEPT !.pc = IF rs.stations_read THEN "coords" ELSE "raised"]
       ELSE LET file == rs.listing[rs.f]
            IN IF file.csv
               THEN rs' = [rs EXCEPT
                             !.all = IF interval_in(rs.interval, file)
                                     THEN @ \o stack(file) ELSE @,
                             !.stations_read = TRUE,
                             !.f = @ + 1]
               ELSE rs' = [rs EXCEPT !.f = @ + 1]
    /\ UNCHANGED <<db, schemas, last, dr, cl, wk, sy>>

\* One pass of "for est in stations_simaj['codigo']", or the return.
RsCoord ==
    /\ rs.pc = "coords"
    /\ IF rs.i >= Len(rs.estaciones)
       THEN rs' = [rs EXCEPT !.pc = "done"]
       ELSE LET est == rs.estaciones[rs.i + 1].codigo
                lo == coord_lookup(rs.estaciones, est, rs.i, "long")
                la == coord_lookup(rs.estaciones, est, rs.i, "lat")
            IN IF rs.all = <<>> \/ ~lo.ok \/ ~la.ok
               THEN \* an empty DataFrame() has no EST_SIMAJ; a failed lookup
                    rs' = [rs EXCEPT !.pc = "raised"]
               ELSE rs' = [rs EXCEPT
                             !.i = @ + 1,
                             !.all = [r \in DOMAIN rs.all |->
                                        IF rs.all[r].EST_SIMAJ = est
                                        THEN [rs.all[r] EXCEPT !.LONG = lo.val,
                                                               !.LAT = la.val]
                                        ELSE rs.all[r]]]
    /\ UNCHANGED <<db, schemas, last, dr, cl, wk, sy>>

InitRs ==
    /\ rs = Idle
    /\ db = <<>> /\ schemas = {} /\ last = [op |-> "none"]
    /\ dr = Idle /\ cl = Idle /\ wk = Idle /\ sy = Idle

NextRs ==
    \/ \E l \in ListingArgs, e \in EstacionesArgs, i \in IntervalArgs : RsCall(l, e, i)
    \/ RsFile
    \/ RsCoord

SpecRs == InitRs /\ [][NextRs]_vars

\* The files of the listing that are CSVs of the requested interval.
RsMatching == {k \in DOMAIN rs.listing :
                  rs.listing[k].csv /\ rs.listing[k].ivl = rs.interval}

\* What C6 says of a returned table: exactly one row per (row, station
\* column) of every matching file; the coordinates estaciones.csv lists for
\* the row's station code, none for a code it does not list.
RsReturnedRight ==
    /\ \A k \in RsMatching, key \in 1..MaxKeys :
        \A c \in DOMAIN rs.listing[k].cols :
          Cardinality({r \in DOMAIN rs.all :
                          /\ rs.all[r].file = rs.listing[k].name
                          /\ rs.all[r].key = key
                          /\ rs.all[r].EST_SIMAJ = rs.listing[k].cols[c]}) = 1
    /\ \A r \in DOMAIN rs.all :
          \E k \in RsMatching : rs.all[r].file = rs.listing[k].name
    /\ \A r \in DOMAIN rs.all :
          IF \E j \in DOMAIN rs.estaciones : rs.estaciones[j].codigo = rs.all[r].EST_SIMAJ
          THEN \E j \in DOMAIN rs.estaciones :
                  /\ rs.estaciones[j].codigo = rs.all[r].EST_SIMAJ
                  /\ rs.all[r].LONG = rs.estaciones[j].long
                  /\ rs.all[r].LAT = rs.estaciones[j].lat
          ELSE rs.all[r].LONG = NoCoord /\ rs.all[r].LAT = NoCoord

\* C6 as stated: over any set of CSVs the call returns (does not raise), and
\* what it returns is right.
C6_Original ==
    /\ rs.pc # "raised"
    /\ rs.pc = "done" => RsReturnedRight

\* C6 over the listings that hold a CSV of the requested interval: only the
\* other listings make the call raise, and whatever is returned is right, in
\* every order of the rows of estaciones.csv.
C6_RestructureNonEmpty ==
    /\ (rs.pc = "raised" => RsMatching = {})
    /\ (rs.pc = "done" => RsReturnedRight)

\* Two yearly files were stacked and three stations, listed in an order that
\* is not the order of the columns, were joined.
C6_Witness ==
    /\ rs.pc = "done"
    /\ Cardinality(RsMatching) = 2
    /\ Len(rs.estaciones) = 3
    /\ rs.estaciones[1].codigo = "OBL" /\ rs.estaciones[2].codigo = "CEN"
    /\ \E r \in DOMAIN rs.all : rs.all[r].EST_SIMAJ = "CEN" /\ rs.all[r].LONG = 3
    /\ \E r \in DOMAIN rs.all : rs.all[r].EST_SIMAJ = "XXX" /\ rs.all[r].LONG = NoCoord


(***************************************************************************)
(* CLEANING: database_clean, for interval 'hour', over one workbook        *)
(***************************************************************************)

\* A year of the model has YearDays days; day d is in year d \div YearDays.
\* The workbook's file is that of year FileYear.
YearDays == 1
FileYear == 1

\* The sheets a workbook may hold, and the rows a sheet may hold.
MaxSheets == 2
MaxSheetRows == 2

\* '{:02d}:{:02d}'.format(hour, minute)
pad2(n) == IF n < 10 THEN "0" \o ToString(n) ELSE ToString(n)
fmt_hhmm(h, m) == pad2(h) \o ":" \o pad2(m)

\* A cell of the HORA column: a datetime.time, a spreadsheet serial number (of
\* which only the time of day matters), a str, or NaN.
TimeCell(h, m) == [kind |-> "time", h |-> h, m |-> m, s |-> ""]
NumCell(h, m) == [kind |-> "num", h |-> h, m |-> m, s |-> ""]
StrCell(s) == [kind |-> "str", h |-> 0, m |-> 0, s |-> s]
NanCell == [kind |-> "nan", h |-> 0, m |-> 0, s |-> ""]

\* A concentration cell: a number, a text, or blank.
NumVal(n) == [kind |-> "num", n |-> n]
TxtVal == [kind |-> "txt", n |-> 0]

\* pd.to_numeric(errors='coerce')
to_numeric(x) == IF x.kind = "num" THEN Rat(x.n, 1) ELSE NaN

\* The columns kept of a sheet (line 185) and the scaffold's (line 131).
SheetParams == <<"O3", "NO2", "SO2", "PM10", "CO">>
ScaffoldParams == <<"O3", "PM10", "CO", "NO2", "SO2">>

\* Rows of a sheet: the date (a day number), the HORA cell, and the value the
\* row holds for every pollutant.
RowArgs ==
    { [FECHA |-> FileYear * YearDays, HORA |-> TimeCell(22, 0), val |-> NumVal(1)],
      [FECHA |-> FileYear * YearDays, HORA |-> TimeCell(22, 0), val |-> NumVal(4)],
      [FECHA |-> FileYear * YearDays, HORA |-> NanCell, val |-> NumVal(6)],
      [FECHA |-> FileYear * YearDays, HORA |-> StrCell("22:00"), val |-> TxtVal],
      [FECHA |-> (FileYear + 1) * YearDays, HORA |-> NumCell(0, 0), val |-> NumVal(9)] }
SheetRowsArgs == UNION {[1..n -> RowArgs] : n \in 1..MaxSheetRows}

\* Sheet names; "Aguilas" and " AGUILAS" stand for the variants of one
\* station's name that est_dict maps to one code.
SheetNameArgs == {"Centro", "Aguilas", " AGUILAS"}

\* s.strip(' ').upper()
strip_upper(s) ==
    CASE s = "Centro" -> "CENTRO"
      [] s = "Aguilas" -> "AGUILAS"
      [] s = " AGUILAS" -> "AGUILAS"
      [] OTHER -> s

\* est_dict; its accented keys map to the same codes as the plain ones here.
est_dict(k) ==
    CASE k = "AGUILAS" -> "AGU"
      [] k = "ATEMAJAC" -> "ATM"
      [] k = "CENTRO" -> "CEN"
      [] k = "LAS PINTAS" -> "PIN"
      [] k = "LOMA DORADA" -> "LDO"
      [] k = "MIRAVALLE" -> "MIR"
      [] k = "OBLATOS" -> "OBL"
      [] k = "SANTA FE" -> "SFE"
      [] k = "TLAQUEPAQUE" -> "TLA"
      [] k = "VALLARTA" -> "VAL"

\* daterange, as a list of hours (see DrStep).
RECURSIVE daterange(_, _, _)
daterange(start_date, end_date, delta) ==
    IF daterange_cond(start_date, end_date)
    THEN <<start_date>> \o daterange(start_date + delta, end_date, delta)
    ELSE <<>>

\* Lines 122-151: the (FECHA, HORA, PARAM) index of the year's scaffold.
ScaffoldKeys(year) ==
    LET date_array == daterange(year * YearDays * 24,
                                ((year + 1) * YearDays - 1) * 24 + 23,
                                timedelta("hour", 1))
    IN {<<date_array[t] \div 24, fmt_hhmm(date_array[t] % 24, 0), ScaffoldParams[p]>> :
           t \in DOMAIN date_array, p \in DOMAIN ScaffoldParams}

\* .iloc[k] on a column of n rows: a negative k counts from the end.
iloc(k, n) == IF k < 0 THEN n + k ELSE k

\* datetime.strptime(str(date) + ' ' + str(hora), '%Y-%m-%d %H:%M'): only a
\* str of the form HH:MM parses (str of a time is HH:MM:SS, of NaN 'nan').
strptime(cell) ==
    IF cell.kind = "str" /\ \E h \in 0..23, m \in {0, 30} : fmt_hhmm(h, m) = cell.s
    THEN LET hm == CHOOSE hm \in (0..23) \X {0, 30} : fmt_hhmm(hm[1], hm[2]) = cell.s
         IN [ok |-> TRUE, h |-> hm[1], m |-> hm[2]]
    ELSE [ok |-> FALSE, h |-> 0, m |-> 0]

\* Lines 194-226 for row i (counted from 0) of data: the row afterwards, the
\* row the fallback read (-1: none), or an uncaught exception.
normalize(data, i) ==
    LET row == data[i + 1]
        cell == row.HORA
    IN IF cell.kind \in {"time", "num"}
       THEN [ok |-> TRUE, src |-> -1,
             row |-> [row EXCEPT !.HORA = StrCell(fmt_hhmm(cell.h, cell.m))]]
       ELSE LET j == iloc(i - 1, Len(data))
                prev == data[j + 1]
                t == strptime(prev.HORA)
            IN IF ~t.ok
               THEN [ok |-> FALSE, src |-> j, row |-> row]
               ELSE [ok |-> TRUE, src |-> j,
                     row |-> [row EXCEPT
                                !.FECHA = prev.FECHA + (t.h + 1) \div 24,
                                !.HORA = StrCell(fmt_hhmm((t.h + 1) % 24, t.m))]]

\* mean() of a group: NaN is skipped.
Nums(vals) == {k \in DOMAIN vals : ~vals[k].nan}
RECURSIVE SumNums(_, _)
SumNums(vals, ks) ==
    IF ks = {} THEN 0
    ELSE LET k == CHOOSE k \in ks : TRUE IN vals[k].num + SumNums(vals, ks \ {k})
mean(vals) ==
    IF Nums(vals) = {} THEN NaN ELSE Rat(SumNums(vals, Nums(vals)), Cardinality(Nums(vals)))

\* Lines 229-244: the sheet stacked to one row per (row, pollutant), the rows
\* of other years dropped, the values made numeric.
gdl_stack(data, year) ==
    LET n == Len(SheetParams)
        all == [r \in 1..(Len(data) * n) |->
                  [key |-> <<data[(r - 1) \div n + 1].FECHA,
                             data[(r - 1) \div n + 1].HORA.s,
                             SheetParams[((r - 1) % n) + 1]>>,
                   val |-> to_numeric(data[(r - 1) \div n + 1].val)]]
    IN SelectSeq(all, LAMBDA x : x.key[1] \div YearDays = year)

\* Lines 251-252: groupby(['FECHA', 'HORA', 'PARAM']).mean(): for every key of
\* the stack, the rows of the result with that key.
ValsOf(st, k) ==
    LET ix == SelectSeq([r \in DOMAIN st |-> r], LAMBDA r : st[r].key = k)
    IN [q \in DOMAIN ix |-> st[ix[q]].val]
groupby_mean(st) ==
    [k \in {st[r].key : r \in DOMAIN st} |-> <<mean(ValsOf(st, k))>>]

\* Lines 256-257: pd.merge(df, gdl_stack, how='left', left_index=True,
\* right_index=True).  A column name both sides hold gets the suffixes _x, _y.
merge_cols(cols, code) ==
    IF \E c \in DOMAIN cols : cols[c] = code
    THEN [c \in DOMAIN cols |-> IF cols[c] = code THEN code \o "_x" ELSE cols[c]]
         \o <<code \o "_y">>
    ELSE Append(cols, code)
merge_rows(rows, right) ==
    [k \in DOMAIN rows |->
        IF k \in DOMAIN right
        THEN [q \in 1..(Len(rows[k]) * Len(right[k])) |->
                 Append(rows[k][(q - 1) \div Len(right[k]) + 1],
                        right[k][((q - 1) % Len(right[k])) + 1])]
        ELSE [q \in DOMAIN rows[k] |-> Append(rows[k][q], NaN)]]

\* Lines 120-153: the scaffold, one row per key, its only column the one
\* named 0 that stack() leaves.
ClCall ==
    /\ cl.pc = "idle"
    /\ cl' = [pc |-> "sheet", year |-> FileYear, cols |-> <<"0">>,
              rows |-> [k \in ScaffoldKeys(FileYear) |-> <<<<NaN>>>>],
              merged |-> <<>>, name |-> "", raw |-> <<>>, data |-> <<>>, i |-> 0,
              src |-> <<>>]
    /\ UNCHANGED <<db, schemas, last, dr, rs, wk, sy>>

\* Line 158: the next sheet is read.
ClSheet(name, sheetrows) ==
    /\ cl.pc = "sheet"
    /\ Len(cl.merged) < MaxSheets
    /\ \A q \in DOMAIN cl.merged : cl.merged[q].name # name
    /\ cl' = [cl EXCEPT !.pc = "rows", !.name = name, !.raw = sheetrows,
                        !.data = sheetrows, !.i = 0, !.src = <<>>]
    /\ UNCHANGED <<db, schemas, last, dr, rs, wk, sy>>

\* One pass of "for i in range(len(gdl_data))".
ClRow ==
    /\ cl.pc = "rows"
    /\ cl.i < Len(cl.data)
    /\ LET r == normalize(cl.data, cl.i)
       IN cl' = [cl EXCEPT !.pc = IF r.ok THEN "rows" ELSE "raised",
                           !.data[cl.i + 1] = r.row,
                           !.src = Append(@, r.src),
                           !.i = IF r.ok THEN @ + 1 ELSE @]
    /\ UNCHANGED <<db, schemas, last, dr, rs, wk, sy>>

\* Lines 228-257: the sheet is stacked, grouped and merged into df.
ClMerge ==
    /\ cl.pc = "rows"
    /\ cl.i = Len(cl.data)
    /\ LET code == est_dict(strip_upper(cl.name))
           right == groupby_mean(gdl_stack(cl.data, cl.year))
       IN cl' = [cl EXCEPT !.pc = "sheet",
                           !.cols = merge_cols(cl.cols, code),
                           !.rows = merge_rows(cl.rows, right),
                           !.merged = Append(@, [name |-> cl.name, code |-> code,
                                                 data |-> cl.data])]
    /\ UNCHANGED <<db, schemas, last, dr, rs, wk, sy>>

\* Lines 260-263: column 0 is dropped and the table written.
ClWrite ==
    /\ cl.pc = "sheet"
    /\ LET keep == SelectSeq([c \in DOMAIN cl.cols |-> c], LAMBDA c : cl.cols[c] # "0")
       IN cl' = [cl EXCEPT
                   !.pc = "done",
                   !.cols = [q \in DOMAIN keep |-> cl.cols[keep[q]]],
                   !.rows = [k \in DOMAIN cl.rows |->
                               [r \in DOMAIN cl.rows[k] |->
                                  [q \in DOMAIN keep |-> cl.rows[k][r][keep[q]]]]]]
    /\ UNCHANGED <<db, schemas, last, dr, rs, wk, sy>>

InitCl ==
    /\ cl = Idle
    /\ db = <<>> /\ schemas = {} /\ last = [op |-> "none"]
    /\ dr = Idle /\ rs = Idle /\ wk = Idle /\ sy = Idle

NextCl ==
    \/ ClCall
    \/ \E n \in SheetNameArgs, r \in SheetRowsArgs : ClSheet(n, r)
    \/ ClRow
    \/ ClMerge
    \/ ClWrite

SpecCl == InitCl /\ [][NextCl]_vars


\* One hour after the (date, time) of a normalized row.
PlusHour(row) ==
    LET t == strptime(row.HORA)
    IN <<row.FECHA + (t.h + 1) \div 24, fmt_hhmm((t.h + 1) % 24, t.m)>>

\* Claim C4: every row whose time cell is missing or unparseable is set to one
\* hour after its immediate predecessor in the sheet, as already normalized,
\* and the fallback reads no other row.
C4_Original ==
    cl.pc = "rows" =>
        \A j \in 0..(cl.i - 1) :
            cl.raw[j + 1].HORA.kind \in {"nan", "str"} =>
                /\ j >= 1
                /\ cl.src[j + 1] = j - 1
                /\ <<cl.data[j + 1].FECHA, cl.data[j + 1].HORA.s>> = PlusHour(cl.data[j])

\* The values the sheets merged so far hold for a station code, a scaffold
\* key: those of the rows of the file's year with the key's date and time.
RECURSIVE ValuesFor(_, _, _)
ValuesFor(merged, code, k) ==
    IF merged = <<>> THEN <<>>
    ELSE LET m == merged[1]
             st == gdl_stack(m.data, cl.year)
         IN (IF m.code = code THEN ValsOf(st, k) ELSE <<>>)
            \o ValuesFor(Tail(merged), code, k)

SameValue(a, b) == (a.nan /\ b.nan) \/ RatEq(a, b)

\* Claim C5: the cleaned table holds exactly one row per key of the scaffold,
\* and for every station one value in it, the average of the values the
\* sheets of that station hold for the key.
C5_Original ==
    cl.pc = "done" =>
        /\ DOMAIN cl.rows = ScaffoldKeys(cl.year)
        /\ \A k \in DOMAIN cl.rows : Len(cl.rows[k]) = 1
        /\ \A q \in DOMAIN cl.merged :
              LET code == cl.merged[q].code
                  at == {c \in DOMAIN cl.cols : cl.cols[c] = code}
              IN /\ Cardinality(at) = 1
                 /\ \A k \in DOMAIN cl.rows, c \in at :
                       SameValue(cl.rows[k][1][c], mean(ValuesFor(cl.merged, code, k)))

(***************************************************************************)
(* WEEKLY AVERAGES: week_average                                           *)
(***************************************************************************)

\* The longest series has 371 + WkExtra rows.
WkExtra == 4

\* range(1, 53), and the test "s > 52".
scaffold_weeks == 52
last_week == 52

\* The calendar of the model: the year of day number d, day 0 being the first
\* day of year WkYear0.
DaysPerYear == 365
WkYear0 == 2018
year_of(d) == WkYear0 + d \div DaysPerYear

\* The frame: for every pollutant of df.PARAM.unique() (one station) the
\* rows in frame order, one per day from day off on; row k holds the
\* concentration conc_of(seed, k), which may be NaN.
WkParams == <<"O3", "CO">>
WkStations == <<"AGU">>
conc_of(seed, k) ==
    IF seed = 0 /\ k % 5 = 0 THEN NaN ELSE Rat((k * k + seed * k + seed) % 7, 1)
WkLenArgs == {4, 371, 371 + WkExtra}
WkLen2Args == {3, 371}
WkOffArgs == {0, 360}
WkSeedArgs == {0, 1}
WkIntervalArgs == {7, 30}
WkYearEndArgs == {WkYear0, WkYear0 + 1}
WkFrameArgs ==
    {[len |-> <<a, b>>, off |-> o, seed |-> sd] :
        a \in WkLenArgs, b \in WkLen2Args, o \in WkOffArgs, sd \in WkSeedArgs}
station_long(est) == 1
station_lat(est) == 2

\* 'S' + str(s) and 'S' + str(s) + '-' + str(y)
S_ID(s) == "S" \o ToString(s)
S_YEAR(s, y) == "S" \o ToString(s) \o "-" \o ToString(y)

\* Lines 341-361: one row per year, week 1..52, pollutant and station.
week_scaffold(year_start, year_end) ==
    LET per == Len(WkParams) * Len(WkStations)
        n == (year_end + 1 - year_start) * scaffold_weeks * per
    IN [r \in 1..n |->
          LET y == year_start + (r - 1) \div (scaffold_weeks * per)
              w == (((r - 1) \div per) % scaffold_weeks) + 1
              pi == (((r - 1) % per) \div Len(WkStations)) + 1
              ei == ((r - 1) % Len(WkStations)) + 1
          IN [S_ID |-> S_ID(w), S_YEAR |-> S_YEAR(w, y), PARAM |-> WkParams[pi],
              EST |-> WkStations[ei], CONC |-> NaN, DESV_EST |-> NaN,
              LONG |-> station_long(WkStations[ei]),
              LAT |-> station_lat(WkStations[ei])]]

\* Line 364: the argument interval is overwritten.
interval_used(interval) == 7

\* int(round(n / d, 0)): to the nearest integer, a half to the even one.
round_div(n, d) ==
    LET q == n \div d
        r == n % d
    IN IF 2 * r < d THEN q
       ELSE IF 2 * r > d THEN q + 1
       ELSE IF q % 2 = 0 THEN q ELSE q + 1

\* df_analysis.iloc[a:b]['CONC'] of a series of n rows: the slice is clipped.
iloc_slice(seed, n, a, b) ==
    [k \in 1..(IF b > n THEN (IF a > n THEN 0 ELSE n - a) ELSE b - a) |->
        conc_of(seed, a + k - 1)]

\* Series.std(): NaN skipped, ddof = 1; computed as the sum of the squared
\* deviations from the mean over count - 1.  The value is kept as its square
\* (the variance), an exact rational.
RECURSIVE SumSqDev(_, _, _)
SumSqDev(vals, ks, m) ==
    IF ks = {} THEN 0
    ELSE LET k == CHOOSE k \in ks : TRUE
         IN (vals[k].num * m.den - m.num) * (vals[k].num * m.den - m.num)
            + SumSqDev(vals, ks \ {k}, m)
std(vals) ==
    LET c == Cardinality(Nums(vals))
        m == mean(vals)
    IN IF c < 2 THEN NaN
       ELSE Rat(SumSqDev(vals, Nums(vals), m), m.den * m.den * (c - 1))

\* Lines 398-402: the label of the next window.
next_s_wrap_one(s) == IF s + 1 > last_week THEN 1 ELSE s + 1
next_s(s) == IF s + 1 > last_week THEN 0 ELSE s + 1

\* int(((i*interval + interval) - (i*interval)) / 2 - 0.5)
half_window(interval) == (interval - 1) \div 2

WkCall(frame, interval, year_end) ==
    /\ wk.pc = "idle"
    /\ wk' = [pc |-> "pair", frame |-> frame, w |-> interval,
              interval |-> interval_used(interval),
              df_week |-> week_scaffold(WkYear0, year_end),
              pair |-> 0, divide |-> 0, i |-> 0, s |-> 1, log |-> <<>>]
    /\ UNCHANGED <<db, schemas, last, dr, cl, rs, sy>>

\* Lines 366-374: the next (pollutant, station) pair, or the return.
WkPair ==
    /\ wk.pc = "pair"
    /\ IF wk.pair >= Len(WkParams) * Len(WkStations)
       THEN wk' = [wk EXCEPT !.pc = "done"]
       ELSE wk' = [wk EXCEPT
                     !.pc = "windows",
                     !.pair = @ + 1,
                     !.divide = round_div(wk.frame.len[wk.pair + 1], wk.interval),
                     !.i = 0,
                     !.s = 1]
    /\ UNCHANGED <<db, schemas, last, dr, cl, rs, sy>>

\* df_week.loc[(S_ID == sid) & (S_YEAR == syear) & (PARAM == p) &
\*             (station == est)]: the rows selected.
week_mask(df_week, sid, syear, p, est) ==
    {r \in DOMAIN df_week :
        /\ df_week[r].S_ID = sid
        /\ df_week[r].S_YEAR = syear
        /\ df_week[r].PARAM = p
        /\ df_week[r].EST = est}

\* df_week.loc[mask, 'CONC'] = mean_conc; df_week.loc[mask, 'DESV_EST'] = std_conc
week_write(df_week, hit, mean_conc, std_conc) ==
    [r \in DOMAIN df_week |->
        IF r \in hit
        THEN [df_week[r] EXCEPT !.CONC = mean_conc, !.DESV_EST = std_conc]
        ELSE df_week[r]]

\* Lines 376-402: one pass of "for i in range(0, divide)", or its end.
WkWindow ==
    /\ wk.pc = "windows"
    /\ IF wk.i >= wk.divide
       THEN wk' = [wk EXCEPT !.pc = "pair"]
       ELSE LET n == wk.frame.len[wk.pair]
                a == wk.i * wk.interval
                vals == iloc_slice(wk.frame.seed + wk.pair - 1, n, a, a + wk.interval)
                day_year == a + half_window(wk.interval)
                year_df == year_of(wk.frame.off + day_year)
                p == WkParams[((wk.pair - 1) \div Len(WkStations)) + 1]
                est == WkStations[((wk.pair - 1) % Len(WkStations)) + 1]
            IN IF day_year >= n
               THEN wk' = [wk EXCEPT !.pc = "raised"]
               ELSE \E hit \in {week_mask(wk.df_week, S_ID(wk.s), S_YEAR(wk.s, year_df),
                                          p, est)} :
                      wk' = [wk EXCEPT
                               !.df_week = week_write(@, hit, mean(vals), std(vals)),
                               !.log = Append(@, [pair |-> wk.pair, i |-> wk.i,
                                                  s |-> wk.s, rows |-> Len(vals),
                                                  hit |-> hit]),
                               !.i = @ + 1,
                               !.s = next_s(@)]
    /\ UNCHANGED <<db, schemas, last, dr, cl, rs, sy>>

InitWk ==
    /\ wk = Idle
    /\ db = <<>> /\ schemas = {} /\ last = [op |-> "none"]
    /\ dr = Idle /\ cl = Idle /\ rs = Idle /\ sy = Idle

NextWk ==
    \/ \E f \in WkFrameArgs, i \in WkIntervalArgs, y \in WkYearEndArgs : WkCall(f, i, y)
    \/ WkPair
    \/ WkWindow

SpecWk == InitWk /\ [][NextWk]_vars

\* The rows of window i of a series of n rows, and their values that are
\* numbers.
WindowRows(n, i) == {k \in (7 * i)..(7 * i + 6) : k < n}
WindowNums(seed, n, i) == {k \in WindowRows(n, i) : ~conc_of(seed, k).nan}
RECURSIVE WkSum(_, _, _)
WkSum(seed, ks, power) ==
    IF ks = {} THEN 0
    ELSE LET k == CHOOSE k \in ks : TRUE
             x == conc_of(seed, k).num
         IN (IF power = 2 THEN x * x ELSE x) + WkSum(seed, ks \ {k}, power)

\* m is the arithmetic mean of the numbers of the window: m * count = sum.
IsMeanOf(m, seed, n, i) ==
    LET ks == WindowNums(seed, n, i)
    IN IF ks = {} THEN m.nan
       ELSE ~m.nan /\ m.num * Cardinality(ks) = m.den * WkSum(seed, ks, 1)

\* v is the square of the sample standard deviation of the numbers of the
\* window: v * c * (c - 1) = c * (sum of squares) - (sum)^2.
IsSampleStdOf(v, seed, n, i) ==
    LET ks == WindowNums(seed, n, i)
        c == Cardinality(ks)
    IN IF c < 2 THEN v.nan
       ELSE /\ ~v.nan
            /\ v.num * c * (c - 1)
                 = v.den * (c * WkSum(seed, ks, 2) - WkSum(seed, ks, 1) * WkSum(seed, ks, 1))

\* The windows of a pair that the log holds.
WkLogOf(pair) == SelectSeq(wk.log, LAMBDA e : e.pair = pair)
WkPairDone(pair) ==
    \/ wk.pc = "done"
    \/ wk.pc \in {"pair", "windows"} /\ wk.pair > pair
    \/ wk.pc = "pair" /\ wk.pair = pair

\* The output row holds the label, the mean and the deviation of window e.
WkRowHolds(row, e) ==
    /\ row.S_ID = S_ID(e.s)
    /\ IsMeanOf(row.CONC, wk.frame.seed + e.pair - 1, wk.frame.len[e.pair], e.i)
    /\ IsSampleStdOf(row.DESV_EST, wk.frame.seed + e.pair - 1, wk.frame.len[e.pair], e.i)

\* Claim C3: the windows of a pair are labelled S1, ..., S52 in order and the
\* one after S52 is labelled S0; a series of 371 rows yields exactly 53
\* windows, the 53rd labelled S0 and written to no output row, no row having
\* that label; every output row that received a window holds the arithmetic
\* mean and the sample standard deviation of that window's values.
C3_WeekAverage ==
    wk.pc \in {"pair", "windows", "done"} =>
        /\ \A q \in DOMAIN wk.log :
              /\ wk.log[q].i < last_week => wk.log[q].s = wk.log[q].i + 1
              /\ wk.log[q].i = last_week => wk.log[q].s = 0
        /\ \A pair \in DOMAIN wk.frame.len :
              (WkPairDone(pair) /\ wk.frame.len[pair] = 371) =>
                  LET w == WkLogOf(pair)
                  IN /\ Len(w) = 53
                     /\ \A q \in DOMAIN w : w[q].i = q - 1
                     /\ w[53].s = 0
                     /\ w[53].hit = {}
        /\ \A r \in DOMAIN wk.df_week : wk.df_week[r].S_ID # "S0"
        /\ \A r \in DOMAIN wk.df_week \ UNION {wk.log[q].hit : q \in DOMAIN wk.log} :
              wk.df_week[r].CONC.nan /\ wk.df_week[r].DESV_EST.nan
        /\ \A q \in DOMAIN wk.log : \A r \in wk.log[q].hit :
              (\A o \in DOMAIN wk.log : o > q => r \notin wk.log[o].hit)
                  => WkRowHolds(wk.df_week[r], wk.log[q])

\* A series of 371 rows was averaged: its 53rd window was labelled S0 and
\* written nowhere, and its week S52 holds a mean and a deviation.
C3_Witness ==
    /\ wk.pc = "done"
    /\ wk.frame.len[1] = 371
    /\ \E q \in DOMAIN wk.log :
          /\ wk.log[q].pair = 1 /\ wk.log[q].i = 52
          /\ wk.log[q].s = 0 /\ wk.log[q].hit = {}
    /\ \E q \in DOMAIN wk.log :
          /\ wk.log[q].pair = 1 /\ wk.log[q].s = 52
          /\ \E r \in wk.log[q].hit :
                ~wk.df_week[r].CONC.nan /\ ~wk.df_week[r].DESV_EST.nan

\* C11 as stated: the window size used is the caller's argument w; every
\* aggregated window has exactly w rows; a series of n rows yields exactly
\* floor(n / w) windows, window i being rows i*w .. i*w + w - 1.
C11_Original ==
    wk.pc \in {"pair", "windows", "done"} =>
        /\ wk.interval = wk.w
        /\ \A q \in DOMAIN wk.log :
              /\ wk.log[q].rows = wk.w
              /\ (wk.log[q].i + 1) * wk.w <= wk.frame.len[wk.log[q].pair]
        /\ \A pair \in DOMAIN wk.frame.len :
              WkPairDone(pair) => Len(WkLogOf(pair)) = wk.frame.len[pair] \div wk.w

=============================================================================
